---- MODULE Spec2Model ----
(***************************************************************************)
(* Model of the detectDevice scripts:                                      *)
(*   scraper.py              fetch -> extract table rows -> save YAML      *)
(*   reformater.py           format_device_data (key remapping)            *)
(*   playground/reformater.py add_color_gamut, update_keys, update_values  *)
(*                                                                         *)
(* Text is a sequence of one-character strings.  A Python value is a       *)
(* tagged record: None, bool, float (an exact decimal num/den), str.       *)
(* A dict is a function whose domain is its key set.                       *)
(***************************************************************************)
EXTENDS Integers, Sequences, FiniteSets, TLC

VARIABLES
    pc,         \* position of the scraper run
    response,   \* what requests.get returned: status, table, th count, rows
    idx,        \* index of the row the extractor loop is at
    devices,    \* scrape_ios_devices: the dict being built
    src,        \* history: device name -> index of the row its entry was built from
    ret,        \* return value of scrape_ios_devices
    saved,      \* the contents save_to_yaml wrote, in order
    out,        \* lines printed
    fetches,    \* number of HTTP GETs issued
    exc,        \* exception raised by the last call ("none" when it returned)
    device,     \* the record a reformatting function is applied to
    orig,       \* history: the record as first loaded
    prev,       \* history: the record before the last call
    hist,       \* history: the functions applied to the record, in order
    formatted   \* result of format_device_data

vars == <<pc, response, idx, devices, src, ret, saved, out, fetches, exc,
          device, orig, prev, hist, formatted>>

scraperVars == <<pc, response, idx, devices, src, ret, saved, out, fetches>>
recordVars == <<device, orig, prev, hist, formatted>>

(***************************************************************************)
(* Bounds                                                                  *)
(***************************************************************************)
MaxRows == 2        \* data rows in a fetched table
MaxOps == 3         \* reformatting calls applied to one record
MaxAbsent == 1      \* mapped source labels missing from a remapping input

(***************************************************************************)
(* Python values                                                           *)
(***************************************************************************)
PyNone == [k |-> "None"]
PyBool(b) == [k |-> "bool", v |-> b]
PyStr(s) == [k |-> "str", v |-> s]

RECURSIVE Reduce(_, _)
\* num/den with den a power of ten, in lowest decimal terms (8.30 = 8.3)
Reduce(num, den) ==
    IF den > 1 /\ num % 10 = 0 THEN Reduce(num \div 10, den \div 10)
    ELSE <<num, den>>

PyFloat(num, den) == [k |-> "float", v |-> Reduce(num, den)]

\* bool(x) of a Python value
Truthy(x) ==
    CASE x.k = "None" -> FALSE
      [] x.k = "bool" -> x.v
      [] x.k = "float" -> x.v[1] # 0
      [] x.k = "str" -> x.v # <<>>
      [] x.k = "dict" -> DOMAIN x.v # {}

\* dict.get(key), None when absent
Get(d, key) == IF key \in DOMAIN d THEN d[key] ELSE PyNone

\* d[key] = value
SetItem(d, key, value) ==
    [x \in DOMAIN d \cup {key} |-> IF x = key THEN value ELSE d[x]]

\* d without key
DelItem(d, key) == [x \in DOMAIN d \ {key} |-> d[x]]

EmptyDict == [x \in {} |-> PyNone]

(***************************************************************************)
(* Text                                                                    *)
(***************************************************************************)
Digit == {"0", "1", "2", "3", "4", "5", "6", "7", "8", "9"}
Whitespace == {" ", "\t", "\n"}

DigitVal(c) ==
    CASE c = "0" -> 0 [] c = "1" -> 1 [] c = "2" -> 2 [] c = "3" -> 3
      [] c = "4" -> 4 [] c = "5" -> 5 [] c = "6" -> 6 [] c = "7" -> 7
      [] c = "8" -> 8 [] c = "9" -> 9

RECURSIVE DigitsToInt(_)
DigitsToInt(s) ==
    IF s = <<>> THEN 0
    ELSE 10 * DigitsToInt(SubSeq(s, 1, Len(s) - 1)) + DigitVal(s[Len(s)])

RECURSIVE Pow10(_)
Pow10(n) == IF n = 0 THEN 1 ELSE 10 * Pow10(n - 1)

\* str.strip()
strip(s) ==
    LET keep == {i \in 1..Len(s) : s[i] \notin Whitespace}
    IN  IF keep = {} THEN <<>>
        ELSE LET lo == CHOOSE i \in keep : \A j \in keep : i <= j
                 hi == CHOOSE i \in keep : \A j \in keep : j <= i
             IN  SubSeq(s, lo, hi)

\* end of the maximal run of digits of s that starts at i (i - 1 when s[i] is no digit)
DigitRunEnd(s, i) ==
    LET stops == {j \in i..Len(s) : s[j] \notin Digit}
    IN  IF stops = {} THEN Len(s)
        ELSE (CHOOSE j \in stops : \A m \in stops : j <= m) - 1

(***************************************************************************)
(* scraper.py                                                              *)
(***************************************************************************)
HTTP_OK == 200

\* extract_number: re.search(r"\d+(\.\d+)?", text), float of the match or None
extract_number(text) ==
    LET starts == {i \in 1..Len(text) : text[i] \in Digit}
    IN  IF starts = {} THEN PyNone
        ELSE LET a == CHOOSE i \in starts : \A j \in starts : i <= j
                 b == DigitRunEnd(text, a)
                 hasFrac == /\ b + 2 <= Len(text)
                            /\ text[b + 1] = "."
                            /\ text[b + 2] \in Digit
                 c == IF hasFrac THEN DigitRunEnd(text, b + 2) ELSE b
                 whole == DigitsToInt(SubSeq(text, a, b))
             IN  IF hasFrac
                 THEN PyFloat(whole * Pow10(c - b - 1)
                                + DigitsToInt(SubSeq(text, b + 2, c)),
                              Pow10(c - b - 1))
                 ELSE PyFloat(whole, 1)

\* variant: any response is parsed, whatever its status
StatusOk_AnyStatus(status) == TRUE

\* the response accepted by scrape_ios_devices (status_code != 200 returns None)
StatusOk(status) == status = HTTP_OK

\* variant: only empty rows are skipped, the length check is dropped
SkipRow_NoLengthCheck(columns, nHeaders) == columns = <<>>

\* line 37: a row is skipped when it has no cells or fewer cells than headers
SkipRow(columns, nHeaders) == columns = <<>> \/ Len(columns) < nHeaders

\* the highest Python index the dict literal of lines 44-57 reads: columns[9]
LastColumnRead == 9

\* lines 44-57 raise IndexError when the row has no columns[9]
RowRaises(columns) == Len(columns) < LastColumnRead + 1

\* columns[i].text.strip(), i a Python (0-based) index
Cell(columns, i) == strip(columns[i + 1])

\* variant: every field reads the column to the left of its own
MakeRecord_ShiftedColumns(columns) ==
    [logical_width   |-> extract_number(Cell(columns, 0)),
     logical_height  |-> extract_number(Cell(columns, 1)),
     physical_width  |-> extract_number(Cell(columns, 2)),
     physical_height |-> extract_number(Cell(columns, 3)),
     ppi             |-> extract_number(Cell(columns, 4)),
     scale_factor    |-> extract_number(Cell(columns, 5)),
     screen_diagonal |-> extract_number(Cell(columns, 6)),
     aspect_ratio    |-> PyStr(Cell(columns, 7)),
     release_date    |-> PyStr(Cell(columns, 8)),
     gpu             |-> PyStr(<<"u", "n", "k", "n", "o", "w", "n">>),
     unique          |-> PyBool(FALSE)]
    @@ ("pro-motion" :> PyBool(FALSE))

\* lines 44-57: the record built from an accepted row
MakeRecord(columns) ==
    [logical_width   |-> extract_number(Cell(columns, 1)),
     logical_height  |-> extract_number(Cell(columns, 2)),
     physical_width  |-> extract_number(Cell(columns, 3)),
     physical_height |-> extract_number(Cell(columns, 4)),
     ppi             |-> extract_number(Cell(columns, 5)),
     scale_factor    |-> extract_number(Cell(columns, 6)),
     screen_diagonal |-> extract_number(Cell(columns, 7)),
     aspect_ratio    |-> PyStr(Cell(columns, 8)),
     release_date    |-> PyStr(Cell(columns, 9)),
     gpu             |-> PyStr(<<"u", "n", "k", "n", "o", "w", "n">>),
     unique          |-> PyBool(FALSE)]
    @@ ("pro-motion" :> PyBool(FALSE))

\* variant: an entry already present is kept (first row wins)
Store_KeepFirst(d, name, value) ==
    [x \in DOMAIN d \cup {name} |-> IF x \in DOMAIN d THEN d[x] ELSE value]

\* line 44: devices[model_name] = ...
Store(d, name, value) == SetItem(d, name, value)

\* variant: if ios_devices is not None
SaveGuard_NotNone(r) == r.k # "None"

\* line 71: if ios_devices:
SaveGuard(r) == Truthy(r)

MsgFetchFailed == "Failed to retrieve the webpage"
MsgNoTable == "Could not find the device table on the webpage."
MsgSaved == "Successfully saved devices to ios_devices.yaml"
MsgFailed == "Failed to scrape data"

(***************************************************************************)
(* Pages the site may serve                                                *)
(***************************************************************************)
Statuses == {200, 404}
HeaderCounts == {0, 1, 9, 10, 11}
CellCounts == {0, 1, 9, 10, 11}
NameCells == { <<"A">>, <<" ", "A", "\n">>, <<"B">> }
Variants == {1, 2}

\* text of the cell at Python index i (i >= 1) of a row of the given variant
CellText(variant, i) ==
    IF variant = 1
    THEN CASE i = 1 -> <<"3", "9", "0">>
           [] i = 2 -> <<" ", "8", "4", "4", " ">>
           [] i = 3 -> <<"1", "1", "7", "0">>
           [] i = 4 -> <<"2", "5", "3", "2">>
           [] i = 5 -> <<"4", "6", "0", " ", "p", "p", "i">>
           [] i = 6 -> <<"@", "3", "x">>
           [] i = 7 -> <<"6", ".", "1", "0", "\"">>
           [] i = 8 -> <<" ", "1", "9", ":", "9">>
           [] i = 9 -> <<"2", "0", "2", "0", "-", "1", "0", "-", "2", "3", " ">>
           [] OTHER -> <<"x">>
    ELSE CASE i = 1 -> <<"3", "2", "0">>
           [] i = 2 -> <<"n", "/", "a">>
           [] i = 3 -> <<"6", "4", "0", ".">>
           [] i = 4 -> <<>>
           [] i = 5 -> <<"~", "1", "6", "3", ".", "5">>
           [] i = 6 -> <<"1", ".", "0">>
           [] i = 7 -> <<"3", ".", "5", " ", "i", "n">>
           [] i = 8 -> <<"3", ":", "2">>
           [] i = 9 -> <<"2", "0", "0", "7", "-", "0", "6", "-", "2", "9">>
           [] OTHER -> <<"y", "1">>

Row(nameCell, variant, n) ==
    [j \in 1..n |-> IF j = 1 THEN nameCell ELSE CellText(variant, j - 1)]

Rows == {Row(nm, v, n) : nm \in NameCells, v \in Variants, n \in CellCounts}

RECURSIVE SeqsUpTo(_, _)
SeqsUpTo(S, n) ==
    IF n = 0 THEN {<<>>}
    ELSE LET shorter == SeqsUpTo(S, n - 1)
         IN  shorter \cup {Append(s, x) : s \in {t \in shorter : Len(t) = n - 1}, x \in S}

Pages == [status : Statuses, hasTable : BOOLEAN, nHeaders : HeaderCounts,
          rows : SeqsUpTo(Rows, MaxRows)]

NoResponse == [status |-> 0, hasTable |-> FALSE, nHeaders |-> 0, rows |-> <<>>]

(***************************************************************************)
(* The scraper run                                                         *)
(***************************************************************************)
IdleRecord ==
    /\ device = EmptyDict /\ orig = EmptyDict /\ prev = EmptyDict
    /\ hist = <<>> /\ formatted = EmptyDict

InitScraper ==
    /\ pc = "start"
    /\ response = NoResponse
    /\ idx = 0
    /\ devices = EmptyDict
    /\ src = EmptyDict
    /\ ret = PyNone
    /\ saved = <<>>
    /\ out = <<>>
    /\ fetches = 0
    /\ exc = "none"
    /\ IdleRecord

\* line 16: requests.get raises (transport error); nothing catches it
FetchRaises ==
    /\ pc = "start"
    /\ fetches' = fetches + 1
    /\ exc' = "RequestException"
    /\ pc' = "crashed"
    /\ UNCHANGED <<response, idx, devices, src, ret, saved, out>>
    /\ UNCHANGED recordVars

\* lines 16-19: the GET and the status check
Fetch ==
    /\ pc = "start"
    /\ \E page \in Pages :
        /\ response' = page
        /\ fetches' = fetches + 1
        /\ IF StatusOk(page.status)
           THEN /\ pc' = "parse"
                /\ UNCHANGED <<ret, out>>
           ELSE /\ out' = Append(out, MsgFetchFailed)
                /\ ret' = PyNone
                /\ pc' = "main"
    /\ UNCHANGED <<idx, devices, src, saved, exc>>
    /\ UNCHANGED recordVars

\* lines 21-32: parse, find the table, read the headers
FindTable ==
    /\ pc = "parse"
    /\ IF response.hasTable
       THEN /\ devices' = EmptyDict
            /\ idx' = 1
            /\ pc' = "loop"
            /\ UNCHANGED <<ret, out>>
       ELSE /\ out' = Append(out, MsgNoTable)
            /\ ret' = PyNone
            /\ pc' = "main"
            /\ UNCHANGED <<devices, idx>>
    /\ UNCHANGED <<response, src, saved, fetches, exc>>
    /\ UNCHANGED recordVars

\* lines 35-38: a row that is skipped
RowSkip ==
    /\ pc = "loop"
    /\ idx <= Len(response.rows)
    /\ SkipRow(response.rows[idx], response.nHeaders)
    /\ idx' = idx + 1
    /\ UNCHANGED <<pc, response, devices, src, ret, saved, out, fetches, exc>>
    /\ UNCHANGED recordVars

\* lines 35-57: an accepted row with the ten cells the record needs
RowStore ==
    /\ pc = "loop"
    /\ idx <= Len(response.rows)
    /\ ~SkipRow(response.rows[idx], response.nHeaders)
    /\ ~RowRaises(response.rows[idx])
    /\ LET columns == response.rows[idx]
           model_name == Cell(columns, 0)
       IN  /\ devices' = Store(devices, model_name, MakeRecord(columns))
           /\ src' = Store(src, model_name, idx)
    /\ idx' = idx + 1
    /\ UNCHANGED <<pc, response, ret, saved, out, fetches, exc>>
    /\ UNCHANGED recordVars

\* lines 35-57: an accepted row too short for columns[9]: IndexError, uncaught
RowIndexError ==
    /\ pc = "loop"
    /\ idx <= Len(response.rows)
    /\ ~SkipRow(response.rows[idx], response.nHeaders)
    /\ RowRaises(response.rows[idx])
    /\ exc' = "IndexError"
    /\ pc' = "crashed"
    /\ UNCHANGED <<response, idx, devices, src, ret, saved, out, fetches>>
    /\ UNCHANGED recordVars

\* line 61: return devices
ReturnDevices ==
    /\ pc = "loop"
    /\ idx > Len(response.rows)
    /\ ret' = [k |-> "dict", v |-> devices]
    /\ pc' = "main"
    /\ UNCHANGED <<response, idx, devices, src, saved, out, fetches, exc>>
    /\ UNCHANGED recordVars

\* lines 71-73: save_to_yaml and the confirmation
MainSave ==
    /\ pc = "main"
    /\ SaveGuard(ret)
    /\ saved' = Append(saved, [devices |-> ret.v])
    /\ out' = Append(out, MsgSaved)
    /\ pc' = "done"
    /\ UNCHANGED <<response, idx, devices, src, ret, fetches, exc>>
    /\ UNCHANGED recordVars

\* lines 74-75
MainFail ==
    /\ pc = "main"
    /\ ~SaveGuard(ret)
    /\ out' = Append(out, MsgFailed)
    /\ pc' = "done"
    /\ UNCHANGED <<response, idx, devices, src, ret, saved, fetches, exc>>
    /\ UNCHANGED recordVars

NextScraper ==
    \/ FetchRaises
    \/ Fetch
    \/ FindTable
    \/ RowSkip
    \/ RowStore
    \/ RowIndexError
    \/ ReturnDevices
    \/ MainSave
    \/ MainFail

SpecScraper == InitScraper /\ [][NextScraper]_vars

(***************************************************************************)
(* playground/reformater.py                                                *)
(***************************************************************************)
GamutYear == 2016
RateProMotion == 120
RateDefault == 60

DASH == "-"

IsLeap(y) == y % 4 = 0 /\ (y % 100 # 0 \/ y % 400 = 0)

DaysInMonth(y, m) ==
    CASE m \in {1, 3, 5, 7, 8, 10, 12} -> 31
      [] m \in {4, 6, 9, 11} -> 30
      [] OTHER -> IF IsLeap(y) THEN 29 ELSE 28

NonZeroDigit == Digit \ {"0"}

\* length of the text "%m" matches at position p: 1[0-2]|0[1-9]|[1-9] (0: no match)
MonthMatch(s, p) ==
    LET two == /\ p + 1 <= Len(s)
               /\ \/ s[p] = "1" /\ s[p + 1] \in {"0", "1", "2"}
                  \/ s[p] = "0" /\ s[p + 1] \in NonZeroDigit
        one == p <= Len(s) /\ s[p] \in NonZeroDigit
        \* the alternative is kept only if the "-" of the format follows it
        dashAt(q) == q <= Len(s) /\ s[q] = DASH
    IN  IF two /\ dashAt(p + 2) THEN 2
        ELSE IF one /\ dashAt(p + 1) THEN 1
        ELSE 0

\* length of the text "%d" matches at position p:
\* 3[0-1]|[1-2]\d|0[1-9]|[1-9]| [1-9] (0: no match)
DayMatch(s, p) ==
    LET two == /\ p + 1 <= Len(s)
               /\ \/ s[p] = "3" /\ s[p + 1] \in {"0", "1"}
                  \/ s[p] \in {"1", "2"} /\ s[p + 1] \in Digit
                  \/ s[p] = "0" /\ s[p + 1] \in NonZeroDigit
                  \/ s[p] = " " /\ s[p + 1] \in NonZeroDigit
        one == p <= Len(s) /\ s[p] \in NonZeroDigit
    IN  IF two THEN 2
        ELSE IF one THEN 1
        ELSE 0

\* datetime.strptime(s, '%Y-%m-%d'): the date, or ok = FALSE for ValueError
strptime(s) ==
    LET bad == [ok |-> FALSE, year |-> 0, month |-> 0, day |-> 0]
        yearOk == /\ Len(s) >= 5
                  /\ \A i \in 1..4 : s[i] \in Digit
                  /\ s[5] = DASH
        mlen == MonthMatch(s, 6)
        dpos == 6 + mlen + 1
        dlen == DayMatch(s, dpos)
    IN  IF ~yearOk \/ mlen = 0 THEN bad
        ELSE IF dlen = 0 THEN bad
        ELSE IF dpos + dlen - 1 # Len(s) THEN bad   \* unconverted data remains
        ELSE LET y == DigitsToInt(SubSeq(s, 1, 4))
                 m == DigitsToInt(SubSeq(s, 6, 6 + mlen - 1))
                 d == DigitsToInt(SubSeq(s, IF s[dpos] = " " THEN dpos + 1 ELSE dpos,
                                         dpos + dlen - 1))
                 \* datetime has no year 0 and no day past the month's end
             IN  IF y = 0 \/ d > DaysInMonth(y, m) THEN bad
                 ELSE [ok |-> TRUE, year |-> y, month |-> m, day |-> d]

sRGB == PyStr(<<"s", "R", "G", "B">>)
P3 == PyStr(<<"P", "3">>)

\* variant: release_date.year <= 2016
BeforeP3_Inclusive(year) == year <= GamutYear

\* line 14: release_date.year < 2016
BeforeP3(year) == year < GamutYear

\* add_color_gamut(device): the exception raised and the record afterwards
add_color_gamut(d) ==
    LET text == Get(d, "release_date")
    IN  IF text.k # "str" THEN [exc |-> "TypeError", device |-> d]
        ELSE LET date == strptime(text.v)
             IN  IF ~date.ok THEN [exc |-> "ValueError", device |-> d]
                 ELSE [exc |-> "none",
                       device |-> SetItem(d, "color_gamut",
                                          IF BeforeP3(date.year) THEN sRGB ELSE P3)]

\* variant: device.pop('pro-motion', None), which never raises
update_keys_PopDefault(d) ==
    [exc |-> "none",
     device |-> [x \in (DOMAIN d \ {"pro-motion"}) \cup {"refresh_rate"} |->
                    IF x = "refresh_rate"
                    THEN (IF "pro-motion" \in DOMAIN d THEN d["pro-motion"] ELSE [k |-> "None"])
                    ELSE d[x]]]

\* update_keys(device): device['refresh_rate'] = device.pop('pro-motion')
update_keys(d) ==
    IF "pro-motion" \notin DOMAIN d THEN [exc |-> "KeyError", device |-> d]
    ELSE [exc |-> "none",
          device |-> SetItem(DelItem(d, "pro-motion"), "refresh_rate", d["pro-motion"])]

\* update_values(device)
update_values(d) ==
    LET refresh_rate == Get(d, "pro-motion")
    IN  [exc |-> "none",
         device |-> SetItem(d, "refresh_rate",
                            IF Truthy(refresh_rate) THEN PyFloat(RateProMotion, 1)
                            ELSE PyFloat(RateDefault, 1))]

(***************************************************************************)
(* reformater.py                                                           *)
(***************************************************************************)
\* variant: "unique" is carried over from the input
format_device_data_KeepUnique(d) ==
    [aspect_ratio    |-> Get(d, "Aspect Ratio"),
     gpu             |-> Get(d, "GPU"),
     logical_height  |-> Get(d, "Logical Height"),
     logical_width   |-> Get(d, "Logical Width"),
     physical_height |-> Get(d, "Physical Height"),
     physical_width  |-> Get(d, "Physical Width"),
     ppi             |-> Get(d, "PPI"),
     release_date    |-> Get(d, "Release Date"),
     scale_factor    |-> Get(d, "Scale Factor"),
     screen_diagonal |-> Get(d, "Screen Diagonal"),
     unique          |-> Get(d, "unique"),
     device          |-> Get(d, "Device Name")]
    @@ ("pro-motion" :> Get(d, "ProMotion support"))

\* format_device_data(device)
format_device_data(d) ==
    [aspect_ratio    |-> Get(d, "Aspect Ratio"),
     gpu             |-> Get(d, "GPU"),
     logical_height  |-> Get(d, "Logical Height"),
     logical_width   |-> Get(d, "Logical Width"),
     physical_height |-> Get(d, "Physical Height"),
     physical_width  |-> Get(d, "Physical Width"),
     ppi             |-> Get(d, "PPI"),
     release_date    |-> Get(d, "Release Date"),
     scale_factor    |-> Get(d, "Scale Factor"),
     screen_diagonal |-> Get(d, "Screen Diagonal"),
     unique          |-> PyBool(FALSE),
     device          |-> Get(d, "Device Name")]
    @@ ("pro-motion" :> Get(d, "ProMotion support"))

(***************************************************************************)
(* Records the reformatting functions are applied to                       *)
(***************************************************************************)
\* the records scrape_ios_devices creates
ExtractorRecords == {MakeRecord(r) : r \in {x \in Rows : ~RowRaises(x)}}

FlagValues == {PyBool(TRUE), PyBool(FALSE), PyNone, PyStr(<<"y", "e", "s">>)}

RefreshInputs ==
    ExtractorRecords
    \cup {SetItem(r, "pro-motion", f) : r \in ExtractorRecords, f \in FlagValues}
    \cup {DelItem(r, "pro-motion") : r \in ExtractorRecords}

YearTexts == { <<"0", "0", "0", "0">>, <<"1", "9", "0", "0">>, <<"2", "0", "1", "5">>,
               <<"2", "0", "1", "6">>, <<"2", "0", "1", "7">>, <<"2", "0", "1">> }
MonthTexts == { <<"0", "1">>, <<"0", "2">>, <<"0", "9">>, <<"1", "2">>, <<"1", "3">>,
                <<"0", "0">>, <<"3">> }
DayTexts == { <<"0", "1">>, <<"2", "1">>, <<"2", "9">>, <<"3", "0">>, <<"3", "1">>,
              <<"3", "2">>, <<"0", "0">>, <<"7">>, <<" ", "7">>, <<"0", "1", " ">> }

DateTexts ==
    {y \o <<DASH>> \o m \o <<DASH>> \o d : y \in YearTexts, m \in MonthTexts, d \in DayTexts}
    \cup { <<>>, <<"2", "0", "1", "6">>, <<"2", "0", "1", "6", "/", "0", "1", "/", "0", "1">> }

GamutBase == MakeRecord(Row(<<"A">>, 1, LastColumnRead + 1))

GamutInputs ==
    {SetItem(GamutBase, "release_date", PyStr(t)) : t \in DateTexts}
    \cup {SetItem(GamutBase, "release_date", PyNone), DelItem(GamutBase, "release_date")}
    \cup {SetItem(SetItem(GamutBase, "color_gamut", g), "release_date", PyStr(t)) :
            g \in {sRGB, P3},
            t \in { <<"2", "0", "1", "5", "-", "1", "2", "-", "3", "1">>,
                    <<"2", "0", "1", "6", "-", "0", "1", "-", "0", "1">> }}

SourceLabels ==
    {"Aspect Ratio", "GPU", "Logical Height", "Logical Width", "Physical Height",
     "Physical Width", "PPI", "ProMotion support", "Release Date", "Scale Factor",
     "Screen Diagonal", "Device Name"}

\* keys format_device_data does not read
OtherKeys == {"unique", "gpu", "Notes"}

\* the value a source file holds under a key
FileValue(key, variant) ==
    IF key = "unique" THEN PyBool(variant = 1)
    ELSE IF variant = 1 THEN PyStr(<<key>>)
    ELSE IF key = "ProMotion support" THEN PyBool(TRUE)
    ELSE IF key = "PPI" THEN PyFloat(2265, 10)
    ELSE IF key = "GPU" THEN PyNone
    ELSE PyStr(<<key, "2">>)

FormatInputs ==
    {[key \in (SourceLabels \ absent) \cup others |-> FileValue(key, variant)] :
        absent \in {a \in SUBSET SourceLabels : Cardinality(a) <= MaxAbsent} \cup {SourceLabels},
        others \in SUBSET OtherKeys,
        variant \in Variants}

(***************************************************************************)
(* Calls of the reformatting functions on a loaded record                  *)
(***************************************************************************)
IdleScraper ==
    /\ pc = "start" /\ response = NoResponse /\ idx = 0 /\ devices = EmptyDict
    /\ src = EmptyDict /\ ret = PyNone /\ saved = <<>> /\ out = <<>> /\ fetches = 0

InitRecord(inputs) ==
    /\ device \in inputs
    /\ orig = device
    /\ prev = device
    /\ hist = <<>>
    /\ formatted = EmptyDict
    /\ exc = "none"
    /\ IdleScraper

\* one call f(device) where f mutates device in place
Call(name, result) ==
    /\ Len(hist) < MaxOps
    /\ prev' = device
    /\ device' = result.device
    /\ exc' = result.exc
    /\ hist' = Append(hist, name)
    /\ UNCHANGED <<orig, formatted>>
    /\ UNCHANGED scraperVars

UpdateKeys == Call("update_keys", update_keys(device))

UpdateValues == Call("update_values", update_values(device))

AddColorGamut == Call("add_color_gamut", add_color_gamut(device))

\* formatted = format_device_data(device)
FormatDeviceData ==
    /\ Len(hist) < MaxOps
    /\ formatted' = format_device_data(device)
    /\ prev' = device
    /\ exc' = "none"
    /\ hist' = Append(hist, "format_device_data")
    /\ UNCHANGED <<device, orig>>
    /\ UNCHANGED scraperVars

InitRefresh == InitRecord(RefreshInputs)
NextRefresh == UpdateKeys \/ UpdateValues
SpecRefresh == InitRefresh /\ [][NextRefresh]_vars

InitGamut == InitRecord(GamutInputs)
NextGamut == AddColorGamut
SpecGamut == InitGamut /\ [][NextGamut]_vars

InitFormat == InitRecord(FormatInputs)
NextFormat == FormatDeviceData
SpecFormat == InitFormat /\ [][NextFormat]_vars

(***************************************************************************)
(* Properties of the scraper run (SpecScraper)                             *)
(***************************************************************************)
Unknown == PyStr(<<"u", "n", "k", "n", "o", "w", "n">>)

\* the extractor loop has started on the fetched table
Extracting == pc \in {"loop", "crashed", "main", "done"} /\ idx >= 1

\* the loop has gone past row i without an error
Processed(i) == Extracting /\ i < idx

\* the loop raised at row i
RaisedAt(i) == pc = "crashed" /\ exc = "IndexError" /\ idx = i

\* row r is not shorter than the header row (and is not empty)
NotShort(r) == Len(r) > 0 /\ Len(r) >= response.nHeaders

\* rec holds the nine positional fields of row r and the three defaults
RecordOfRow(rec, r) ==
    /\ DOMAIN rec = {"logical_width", "logical_height", "physical_width",
                     "physical_height", "ppi", "scale_factor", "screen_diagonal",
                     "aspect_ratio", "release_date", "gpu", "pro-motion", "unique"}
    /\ rec["logical_width"] = extract_number(strip(r[2]))
    /\ rec["logical_height"] = extract_number(strip(r[3]))
    /\ rec["physical_width"] = extract_number(strip(r[4]))
    /\ rec["physical_height"] = extract_number(strip(r[5]))
    /\ rec["ppi"] = extract_number(strip(r[6]))
    /\ rec["scale_factor"] = extract_number(strip(r[7]))
    /\ rec["screen_diagonal"] = extract_number(strip(r[8]))
    /\ rec["aspect_ratio"] = PyStr(strip(r[9]))
    /\ rec["release_date"] = PyStr(strip(r[10]))
    /\ rec["gpu"] = Unknown
    /\ rec["pro-motion"] = PyBool(FALSE)
    /\ rec["unique"] = PyBool(FALSE)

\* every row with at least n cells that is not shorter than the header row is
\* processed without error and yields its record
RowsYieldRecords(n) ==
    \A i \in 1..Len(response.rows) :
        LET r == response.rows[i]
            name == strip(r[1])
        IN  (Len(r) >= n /\ NotShort(r)) =>
                /\ ~RaisedAt(i)
                /\ Processed(i) =>
                      /\ name \in DOMAIN devices
                      /\ src[name] >= i
                      /\ src[name] = i => RecordOfRow(devices[name], r)

\* C3 as stated: a row with N >= 9 cells that is not shorter than the header
\* row is processed without error and yields a record with the nine positional
\* fields and the defaults gpu = "unknown", pro-motion = false, unique = false.
C3_AsStated == RowsYieldRecords(9)

\* C3 amended: the same for every row with N >= 10 cells (the device name and
\* nine positional fields are ten cells; columns[9] is read).
C3_TenCells == RowsYieldRecords(10)

\* a ten-cell row under a ten-label header row has been stored, one of its
\* numeric cells holding no number
C3_Witness ==
    /\ pc = "done"
    /\ response.nHeaders = 10
    /\ \E i \in 1..Len(response.rows) :
          LET r == response.rows[i]
          IN  /\ Len(r) = 10
              /\ strip(r[1]) \in DOMAIN devices
              /\ src[strip(r[1])] = i
              /\ devices[strip(r[1])]["logical_height"] = PyNone
              /\ devices[strip(r[1])]["screen_diagonal"] = PyFloat(35, 10)

\* C4: a row with fewer cells than header labels is skipped silently: no entry
\* of the record set is built from such a row, no error is raised at it, nothing
\* is printed in the loop, and the record set is no larger than the number of
\* rows with at least as many cells as headers.
C4_ShortRowsSkipped ==
    /\ DOMAIN src = DOMAIN devices
    /\ \A name \in DOMAIN devices :
          Len(response.rows[src[name]]) >= response.nHeaders
    /\ \A i \in 1..Len(response.rows) :
          Len(response.rows[i]) < response.nHeaders => ~RaisedAt(i)
    /\ pc = "loop" => out = <<>>
    /\ Cardinality(DOMAIN devices)
          <= Cardinality({i \in 1..Len(response.rows) :
                              Len(response.rows[i]) >= response.nHeaders})

\* a table with a short ten-cell row and a full row has been saved
C4_Witness ==
    /\ pc = "done"
    /\ saved # <<>>
    /\ \E i \in 1..Len(response.rows) :
          /\ Len(response.rows[i]) = 10
          /\ response.nHeaders = 11
          /\ Processed(i)

\* C6: when the status is not success or the markup has no table, the run is
\* aborted with a diagnostic: the extractor loop is never entered, None is
\* returned, the GET is issued once and save_to_yaml writes nothing.
C6_FailureAborts ==
    /\ fetches <= 1
    /\ (response # NoResponse /\ (response.status # 200 \/ ~response.hasTable)) =>
          /\ fetches = 1
          /\ saved = <<>>
          /\ pc \in {"parse", "main", "done"}
          /\ pc \in {"main", "done"} =>
                /\ ret = PyNone
                /\ Len(out) >= 1
                /\ out[1] = IF response.status # 200 THEN MsgFetchFailed ELSE MsgNoTable
          /\ pc = "done" => Len(out) = 2 /\ out[2] = MsgFailed

\* a 404 response whose body holds a table with a full row ended the run
C6_Witness ==
    /\ pc = "done"
    /\ response.status = 404
    /\ response.hasTable
    /\ \E i \in 1..Len(response.rows) :
          Len(response.rows[i]) >= 10 /\ NotShort(response.rows[i])

\* C7: the returned mapping has one entry per device name among the accepted
\* rows, and the entry is the record of the last accepted row with that name.
C7_LastRowWins ==
    (pc \in {"main", "done"} /\ ret.k = "dict") =>
        LET accepted == {i \in 1..Len(response.rows) : NotShort(response.rows[i])}
            named(nm) == {i \in accepted : strip(response.rows[i][1]) = nm}
        IN  /\ DOMAIN ret.v = {strip(response.rows[i][1]) : i \in accepted}
            /\ \A nm \in DOMAIN ret.v :
                  LET last == CHOOSE i \in named(nm) : \A j \in named(nm) : j <= i
                  IN  RecordOfRow(ret.v[nm], response.rows[last])

\* two accepted rows of different content carry the same name once stripped
C7_Witness ==
    /\ pc = "done"
    /\ saved # <<>>
    /\ Len(response.rows) >= 2
    /\ Len(response.rows[1]) >= 10
    /\ Len(response.rows[2]) >= 10
    /\ response.rows[1][1] # response.rows[2][1]
    /\ strip(response.rows[1][1]) = strip(response.rows[2][1])
    /\ response.rows[1][2] # response.rows[2][2]
    /\ Cardinality(DOMAIN saved[1].devices) = 1

\* C10: the output file is written exactly when the extractor returns a
\* non-empty record set; a successful fetch of a table with no accepted row
\* ends with the failure message and no file.
C10_SavedIffNonEmpty ==
    /\ pc # "done" => saved = <<>>
    /\ pc = "done" =>
          /\ (saved # <<>>) <=> (ret.k = "dict" /\ DOMAIN ret.v # {})
          /\ saved # <<>> => saved = <<[devices |-> ret.v]>>
          /\ (/\ response.status = 200
              /\ response.hasTable
              /\ \A i \in 1..Len(response.rows) : ~NotShort(response.rows[i])) =>
                  /\ saved = <<>>
                  /\ out = <<MsgFailed>>

\* a fetched table whose rows are all shorter than the header row
C10_Witness ==
    /\ pc = "done"
    /\ response.status = 200
    /\ response.hasTable
    /\ Len(response.rows) >= 1
    /\ ret.k = "dict"
    /\ ret.v = EmptyDict
    /\ saved = <<>>

(***************************************************************************)
(* Properties of the reformatting functions                                *)
(***************************************************************************)
\* the last call made on the record
LastCall == IF hist = <<>> THEN "none" ELSE hist[Len(hist)]

Rate60 == PyFloat(60, 1)
Rate120 == PyFloat(120, 1)

\* C1 as stated (SpecRefresh): after update_values the record has refresh_rate =
\* 120.0 when the pro-motion flag was true and 60.0 when it was false or absent,
\* and the key pro-motion no longer exists in the record.
C1_AsStated ==
    LastCall = "update_values" =>
        /\ exc = "none"
        /\ "refresh_rate" \in DOMAIN device
        /\ Get(prev, "pro-motion") = PyBool(TRUE) => device["refresh_rate"] = Rate120
        /\ ("pro-motion" \notin DOMAIN prev \/ prev["pro-motion"] = PyBool(FALSE)) =>
              device["refresh_rate"] = Rate60
        /\ "pro-motion" \notin DOMAIN device

\* C8 as stated (SpecRefresh): after any sequence of update_keys and
\* update_values on a record the Table Extractor created, a refresh_rate field
\* that is present holds 60.0 or 120.0.
C8_AsStated ==
    (orig \in ExtractorRecords /\ "refresh_rate" \in DOMAIN device) =>
        device["refresh_rate"] \in {Rate60, Rate120}

\* C9 (SpecRefresh): update_keys on a record without the key pro-motion raises
\* KeyError and leaves the record as it was; a second update_keys in a row
\* always fails so.
C9_MissingFlagRaises ==
    /\ (LastCall = "update_keys" /\ "pro-motion" \notin DOMAIN prev) =>
          /\ exc = "KeyError"
          /\ device = prev
    /\ (Len(hist) >= 2 /\ LastCall = "update_keys" /\ hist[Len(hist) - 1] = "update_keys") =>
          /\ exc = "KeyError"
          /\ device = prev
          /\ "pro-motion" \notin DOMAIN device

\* update_keys succeeded on an extractor record and was applied again
C9_Witness ==
    /\ orig \in ExtractorRecords
    /\ hist = <<"update_keys", "update_keys">>
    /\ exc = "KeyError"
    /\ "refresh_rate" \in DOMAIN device

\* v is a str holding a calendar date written YYYY-MM-DD
WellFormedDate(v) ==
    /\ v.k = "str"
    /\ Len(v.v) = 10
    /\ \A i \in {1, 2, 3, 4, 6, 7, 9, 10} : v.v[i] \in Digit
    /\ v.v[5] = "-" /\ v.v[8] = "-"
    /\ LET y == DigitsToInt(SubSeq(v.v, 1, 4))
           m == DigitsToInt(SubSeq(v.v, 6, 7))
           d == DigitsToInt(SubSeq(v.v, 9, 10))
       IN  y >= 1 /\ m \in 1..12 /\ d \in 1..DaysInMonth(y, m)

\* C5 (SpecGamut): for a record whose release_date is a well-formed YYYY-MM-DD
\* date, add_color_gamut sets color_gamut to "sRGB" when the year is before
\* 2016 and to "P3" from 2016 on, and changes no other field.
C5_GamutByYear ==
    (LastCall = "add_color_gamut" /\ WellFormedDate(Get(prev, "release_date"))) =>
        LET year == DigitsToInt(SubSeq(prev["release_date"].v, 1, 4))
        IN  /\ exc = "none"
            /\ DOMAIN device = DOMAIN prev \cup {"color_gamut"}
            /\ \A key \in DOMAIN prev \ {"color_gamut"} : device[key] = prev[key]
            /\ device["color_gamut"] = IF year < 2016 THEN sRGB ELSE P3

\* the boundary date 2016-01-01 has been given "P3", replacing an earlier "sRGB"
C5_Witness ==
    /\ LastCall = "add_color_gamut"
    /\ Get(orig, "release_date")
          = PyStr(<<"2", "0", "1", "6", "-", "0", "1", "-", "0", "1">>)
    /\ Get(orig, "color_gamut") = sRGB
    /\ device["color_gamut"] = P3

\* the source label each target key is read from
SourceOf ==
    [aspect_ratio    |-> "Aspect Ratio",
     gpu             |-> "GPU",
     logical_height  |-> "Logical Height",
     logical_width   |-> "Logical Width",
     physical_height |-> "Physical Height",
     physical_width  |-> "Physical Width",
     ppi             |-> "PPI",
     release_date    |-> "Release Date",
     scale_factor    |-> "Scale Factor",
     screen_diagonal |-> "Screen Diagonal",
     device          |-> "Device Name"]
    @@ ("pro-motion" :> "ProMotion support")

\* C2 (SpecFormat): format_device_data returns exactly the 13 target keys, each
\* holding the value of its source label or None when the label is absent,
\* unique false whatever the input held, and leaves its input as it was.
C2_PureProjection ==
    LastCall = "format_device_data" =>
        /\ DOMAIN formatted = DOMAIN SourceOf \cup {"unique"}
        /\ Cardinality(DOMAIN formatted) = 13
        /\ \A key \in DOMAIN SourceOf :
              formatted[key] = IF SourceOf[key] \in DOMAIN orig
                               THEN orig[SourceOf[key]] ELSE PyNone
        /\ formatted["unique"] = PyBool(FALSE)
        /\ device = orig

\* an input with unique = true, an unmapped key and a missing source label
C2_Witness ==
    /\ LastCall = "format_device_data"
    /\ "Notes" \in DOMAIN orig
    /\ Get(orig, "unique") = PyBool(TRUE)
    /\ "Screen Diagonal" \notin DOMAIN orig
    /\ "PPI" \in DOMAIN orig
    /\ "Notes" \notin DOMAIN formatted
    /\ formatted["screen_diagonal"] = PyNone

====
